---- MODULE Spec2Model ----
(***************************************************************************)
(* Model of the portfolio valuation core of python-starter-code.py:        *)
(* StockPortfolioService, MutualFundService and FinanceTrackerDashboard.   *)
(*                                                                         *)
(* A Python dict is a sequence of [key, val] entries in insertion order.   *)
(* Python numbers are exact: integers stay integers, and the result of a   *)
(* true division "/" is a normalised fraction [num, den] (floating-point   *)
(* rounding is not modelled).  A call that raises is recorded as a result  *)
(* of kind "raise" carrying the exception's name.                          *)
(***************************************************************************)
EXTENDS Integers, Sequences, FiniteSets

(* ------------------------------ bounds --------------------------------- *)

\* Number of distinct tickers that can be held.
NumTickers == 2
\* Number of distinct mutual fund scheme codes.
NumSchemes == 2
\* Longest NAV series the provider returns.
MaxNavLen == 2
\* Largest period count asked of the SIP simulation.
MaxMonths == 3
\* The count of add calls is kept up to this number.
AddCallsCap == 2

Tickers == 1..NumTickers
Schemes == 1..NumSchemes
\* Representative input values.
Quantities == {0, 1, 2}
PurchasePrices == {1, 2}
Prices == {0, 1, 2}
Dates == {"2023-01-15"}
Units == {1, 2}
Amounts == {0, 1}
NavValues == {0, 1, 2}
MonthlyAmounts == {0, 1, 2, 3}
Months == 0..MaxMonths

(* --------------------------- Python numbers ---------------------------- *)

Abs(n) == IF n < 0 THEN -n ELSE n

RECURSIVE Gcd(_, _)
Gcd(a, b) == IF b = 0 THEN a ELSE Gcd(b, a % b)

\* The fraction n/d (d # 0) in lowest terms with a positive denominator.
Frac(n, d) ==
    LET g == Gcd(Abs(n), Abs(d))
        s == IF d < 0 THEN -1 ELSE 1
    IN  [num |-> (s * n) \div g, den |-> (s * d) \div g]

FromInt(n) == [num |-> n, den |-> 1]
Zero == FromInt(0)
FAdd(x, y) == Frac(x.num * y.den + y.num * x.den, x.den * y.den)
FSub(x, y) == Frac(x.num * y.den - y.num * x.den, x.den * y.den)
FMul(x, y) == Frac(x.num * y.num, x.den * y.den)
FDiv(x, y) == Frac(x.num * y.den, x.den * y.num)

(* ---------------------------- Python dicts ----------------------------- *)

Keys(d) == {d[i].key : i \in 1..Len(d)}
Has(d, k) == k \in Keys(d)
Get(d, k) == d[CHOOSE i \in 1..Len(d) : d[i].key = k].val

\* d[k] = v: an existing key keeps its place, a new key goes last.
SetItem(d, k, v) ==
    IF Has(d, k)
    THEN [i \in 1..Len(d) |-> IF d[i].key = k THEN [key |-> k, val |-> v] ELSE d[i]]
    ELSE Append(d, [key |-> k, val |-> v])

(* ------------------------------- state --------------------------------- *)

VARIABLES
    stock_holdings,   \* StockPortfolioService.holdings
    mf_holdings,      \* MutualFundService.holdings
    yf_info,          \* what yfinance answers for each ticker
    nav_data,         \* what mfapi.in answers for each scheme (newest first)
    ret,              \* outcome of the call made in the last step
    add_calls         \* history: add_stock/add_holding calls so far (capped)

vars == <<stock_holdings, mf_holdings, yf_info, nav_data, ret, add_calls>>

\* Return value of a call that returns nothing, and of a step that is no call.
None == [kind |-> "None"]
Raise(exc) == [kind |-> "raise", exc |-> exc]

\* Ticker.info answers: lookup raises, info has no currentPrice, or a price.
QuoteError == [kind |-> "error", price |-> 0]
QuoteNone == [kind |-> "none", price |-> 0]
Quote(p) == [kind |-> "price", price |-> p]
Quotes == {QuoteError, QuoteNone} \cup {Quote(p) : p \in Prices}

RECURSIVE SeqsUpTo(_, _)
SeqsUpTo(S, n) ==
    IF n = 0 THEN {<<>>}
    ELSE LET shorter == SeqsUpTo(S, n - 1)
         IN  shorter \cup {Append(s, x) : s \in {t \in shorter : Len(t) = n - 1}, x \in S}

NavSeries == SeqsUpTo(NavValues, MaxNavLen)

Init ==
    /\ stock_holdings = <<>>
    /\ mf_holdings = <<>>
    /\ yf_info = [t \in Tickers |-> QuoteError]
    /\ nav_data = [s \in Schemes |-> <<>>]
    /\ ret = None
    /\ add_calls = 0

(* ----------------------- StockPortfolioService ------------------------- *)

\* Variant: an existing holding is kept (first write wins).
add_stock_keep_first(ticker, quantity, purchase_price, purchase_date) ==
    /\ stock_holdings' =
          IF Has(stock_holdings, ticker)
          THEN stock_holdings
          ELSE SetItem(stock_holdings, ticker,
                 [quantity |-> quantity, purchase_price |-> purchase_price,
                  purchase_date |-> purchase_date, current_price |-> None])
    /\ ret' = None
    /\ add_calls' = IF add_calls < AddCallsCap THEN add_calls + 1 ELSE add_calls
    /\ UNCHANGED <<mf_holdings, yf_info, nav_data>>

add_stock(ticker, quantity, purchase_price, purchase_date) ==
    /\ stock_holdings' = SetItem(stock_holdings, ticker,
            [quantity |-> quantity, purchase_price |-> purchase_price,
             purchase_date |-> purchase_date, current_price |-> None])
    /\ ret' = None
    /\ add_calls' = IF add_calls < AddCallsCap THEN add_calls + 1 ELSE add_calls
    /\ UNCHANGED <<mf_holdings, yf_info, nav_data>>

\* The prices dict: one entry per ticker whose lookup did not raise; the
\* entry's price is None when info has no currentPrice.
fetch_current_prices(tickers, info) ==
    [t \in {u \in tickers : info[u].kind # "error"} |->
        [is_none |-> info[t].kind = "none", price |-> info[t].price]]

\* prices.get(ticker, {}).get('price', holding['purchase_price'])
current_price_of(prices, ticker, holding) ==
    IF ticker \in DOMAIN prices
    THEN prices[ticker]
    ELSE [is_none |-> FALSE, price |-> holding.purchase_price]

\* allocation_percent as the loop body computes it, total_current being the
\* total accumulated so far (this position included).
stock_allocation_percent(current_value, total_current) ==
    IF total_current > 0 THEN Frac(current_value * 100, total_current) ELSE Zero

\* One iteration of the loop over self.holdings.items().
stock_loop_body(acc, ticker, holding, prices) ==
    LET invested_value == holding.purchase_price * holding.quantity
        current_price == current_price_of(prices, ticker, holding)
        current_value == current_price.price * holding.quantity
        gain_loss == current_value - invested_value
        gain_loss_percent ==
            IF invested_value > 0 THEN Frac(gain_loss * 100, invested_value) ELSE Zero
        total_invested == acc.total_invested + invested_value
        total_current == acc.total_current + current_value
    IN  IF current_price.is_none
        THEN Raise("TypeError")
        ELSE [kind |-> "ok",
              total_invested |-> total_invested,
              total_current |-> total_current,
              holdings_detail |-> SetItem(acc.holdings_detail, ticker,
                 [quantity |-> holding.quantity,
                  purchase_price |-> holding.purchase_price,
                  current_price |-> current_price.price,
                  invested_value |-> invested_value,
                  current_value |-> current_value,
                  gain_loss |-> gain_loss,
                  gain_loss_percent |-> gain_loss_percent,
                  allocation_percent |->
                      stock_allocation_percent(current_value, total_current)])]

RECURSIVE stock_loop(_, _, _, _)
stock_loop(acc, holdings, i, prices) ==
    IF i > Len(holdings) \/ acc.kind = "raise"
    THEN acc
    ELSE stock_loop(stock_loop_body(acc, holdings[i].key, holdings[i].val, prices),
                    holdings, i + 1, prices)

\* Variant: total_current reports the invested total.
summary_invested_as_current(acc) ==
    IF acc.kind = "raise"
    THEN acc
    ELSE [kind |-> "summary",
          total_invested |-> acc.total_invested,
          total_current |-> acc.total_invested,
          total_gain_loss |-> acc.total_current - acc.total_invested,
          total_gain_loss_percent |->
              IF acc.total_invested > 0
              THEN Frac((acc.total_current - acc.total_invested) * 100, acc.total_invested)
              ELSE Zero,
          holdings |-> acc.holdings_detail]

\* The dict a portfolio valuation returns from its accumulated totals.
summary(acc) ==
    IF acc.kind = "raise"
    THEN acc
    ELSE [kind |-> "summary",
          total_invested |-> acc.total_invested,
          total_current |-> acc.total_current,
          total_gain_loss |-> acc.total_current - acc.total_invested,
          total_gain_loss_percent |->
              IF acc.total_invested > 0
              THEN Frac((acc.total_current - acc.total_invested) * 100, acc.total_invested)
              ELSE Zero,
          holdings |-> acc.holdings_detail]

EmptyDict == [kind |-> "empty"]
NoTotals == [kind |-> "ok", total_invested |-> 0, total_current |-> 0,
             holdings_detail |-> <<>>]

stock_calculate_portfolio_metrics(holdings, info) ==
    IF holdings = <<>>
    THEN EmptyDict
    ELSE summary(stock_loop(NoTotals, holdings, 1,
                            fetch_current_prices(Keys(holdings), info)))

\* Variant: the valuation writes a fetched price into each holding.
StockMetricsStoresPrice ==
    /\ ret' = stock_calculate_portfolio_metrics(stock_holdings, yf_info)
    /\ stock_holdings' =
          [i \in 1..Len(stock_holdings) |->
              [stock_holdings[i] EXCEPT !.val.current_price = [kind |-> "fetched"]]]
    /\ UNCHANGED <<mf_holdings, yf_info, nav_data, add_calls>>

StockMetrics ==
    /\ ret' = stock_calculate_portfolio_metrics(stock_holdings, yf_info)
    /\ UNCHANGED <<stock_holdings, mf_holdings, yf_info, nav_data, add_calls>>

\* The price provider changes its answer for one ticker.
QuoteChange(ticker, q) ==
    /\ yf_info[ticker] # q
    /\ yf_info' = [yf_info EXCEPT ![ticker] = q]
    /\ ret' = None
    /\ UNCHANGED <<stock_holdings, mf_holdings, nav_data, add_calls>>

(* ------------------------- MutualFundService --------------------------- *)

\* The list the NAV history provider answers for a scheme code.
get_scheme_nav_history(scheme_code) == nav_data[scheme_code]

\* float(entry['nav']) of a series entry (entries are the provider's numbers).
nav_of(entry) == entry

\* float(nav_history[0]['nav']) if nav_history else 0
latest_nav_at_add(nav_history) ==
    IF nav_history # <<>> THEN nav_of(nav_history[1]) ELSE 0

add_holding(scheme_code, units, amount_invested) ==
    /\ mf_holdings' = SetItem(mf_holdings, scheme_code,
            [units |-> units, amount_invested |-> amount_invested,
             current_nav |-> latest_nav_at_add(get_scheme_nav_history(scheme_code)),
             purchase_date |-> "now"])
    /\ ret' = None
    /\ add_calls' = IF add_calls < AddCallsCap THEN add_calls + 1 ELSE add_calls
    /\ UNCHANGED <<stock_holdings, yf_info, nav_data>>

\* holding['units'] * holding['current_nav']
mf_current_value(holding) == holding.units * holding.current_nav

\* One iteration of the loop over self.holdings.items().
mf_loop_body(acc, scheme_code, holding) ==
    LET current_value == mf_current_value(holding)
        gain_loss == current_value - holding.amount_invested
        gain_loss_percent ==
            IF holding.amount_invested > 0
            THEN Frac(gain_loss * 100, holding.amount_invested)
            ELSE Zero
    IN  [kind |-> "ok",
         total_invested |-> acc.total_invested + holding.amount_invested,
         total_current |-> acc.total_current + current_value,
         holdings_detail |-> SetItem(acc.holdings_detail, scheme_code,
            [units |-> holding.units,
             nav |-> holding.current_nav,
             amount_invested |-> holding.amount_invested,
             current_value |-> current_value,
             gain_loss |-> gain_loss,
             gain_loss_percent |-> gain_loss_percent])]

RECURSIVE mf_loop(_, _, _)
mf_loop(acc, holdings, i) ==
    IF i > Len(holdings)
    THEN acc
    ELSE mf_loop(mf_loop_body(acc, holdings[i].key, holdings[i].val), holdings, i + 1)

mf_calculate_portfolio_metrics(holdings) == summary(mf_loop(NoTotals, holdings, 1))

MfMetrics ==
    /\ ret' = mf_calculate_portfolio_metrics(mf_holdings)
    /\ UNCHANGED <<stock_holdings, mf_holdings, yf_info, nav_data, add_calls>>

\* The NAV history provider changes its answer for one scheme.
NavChange(scheme_code, series) ==
    /\ nav_data[scheme_code] # series
    /\ nav_data' = [nav_data EXCEPT ![scheme_code] = series]
    /\ ret' = None
    /\ UNCHANGED <<stock_holdings, mf_holdings, yf_info, add_calls>>

\* Variant: the loop runs over the whole series, range(len(nav_history)).
WholeSeries(a, b) == b

Min(a, b) == IF a < b THEN a ELSE b

\* Variant: only an empty series counts as insufficient.
insufficient_data_only_empty(nav_history, months) ==
    nav_history = <<>> /\ months > 0

\* len(nav_history) < months
insufficient_data(nav_history, months) == Len(nav_history) < months

\* {"error": f"Insufficient data. Only {len(nav_history)} months available"}
insufficient_data_error(nav_history) ==
    [kind |-> "error",
     error |-> [text |-> "Insufficient data. Only {} months available",
                arg |-> Len(nav_history)]]

\* The loop "for i in range(min(months, len(nav_history)))": units_purchased
\* after the first n entries, or the ZeroDivisionError of monthly_amount / 0.
RECURSIVE sip_units(_, _, _)
sip_units(nav_history, monthly_amount, n) ==
    IF n = 0
    THEN [kind |-> "ok", units_purchased |-> Zero]
    ELSE LET before == sip_units(nav_history, monthly_amount, n - 1)
             nav == nav_of(nav_history[n])
         IN  IF before.kind = "raise" THEN before
             ELSE IF nav = 0 THEN Raise("ZeroDivisionError")
             ELSE [kind |-> "ok",
                   units_purchased |->
                       FAdd(before.units_purchased, Frac(monthly_amount, nav))]

\* ((1 + total_return) ** (12 / months) - 1) * 100 is kept as its two operands.
estimate_xirr(current_value, total_invested, months) ==
    IF total_invested = 0 \/ months = 0
    THEN [kind |-> "zero"]
    ELSE [kind |-> "annualised",
          base |-> FAdd(FromInt(1),
                        FDiv(FSub(current_value, FromInt(total_invested)),
                             FromInt(total_invested))),
          exponent |-> Frac(12, months)]

calculate_sip_returns(nav_history, monthly_amount, months) ==
    IF insufficient_data(nav_history, months)
    THEN insufficient_data_error(nav_history)
    ELSE LET total_invested == monthly_amount * months
             loop == sip_units(nav_history, monthly_amount,
                               Min(months, Len(nav_history)))
         IN  IF loop.kind = "raise" THEN loop
             ELSE IF nav_history = <<>> THEN Raise("IndexError")
             ELSE LET latest_nav == nav_of(nav_history[1])
                      current_value == FMul(loop.units_purchased, FromInt(latest_nav))
                      gain == FSub(current_value, FromInt(total_invested))
                  IN  [kind |-> "sip",
                       monthly_investment |-> monthly_amount,
                       total_invested |-> total_invested,
                       units_purchased |-> loop.units_purchased,
                       current_nav |-> latest_nav,
                       current_value |-> current_value,
                       gain |-> gain,
                       gain_percent |->
                           IF total_invested > 0
                           THEN FMul(FDiv(gain, FromInt(total_invested)), FromInt(100))
                           ELSE Zero,
                       xirr_estimate |->
                           estimate_xirr(current_value, total_invested, months)]

SipReturns(scheme_code, monthly_amount, months) ==
    /\ ret' = calculate_sip_returns(get_scheme_nav_history(scheme_code),
                                    monthly_amount, months)
    /\ UNCHANGED <<stock_holdings, mf_holdings, yf_info, nav_data, add_calls>>

(* ---------------------- FinanceTrackerDashboard ------------------------ *)

\* bank_balance = 0 (the bank service is not consulted)
bank_balance == 0

\* metrics.get(key, 0) on a valuation's returned dict
get_or_0(metrics, key) == IF metrics.kind = "summary" THEN metrics[key] ELSE 0

\* (value / total_net_worth * 100) if total_net_worth > 0 else 0
asset_percent(value, total_net_worth) ==
    IF total_net_worth > 0 THEN Frac(value * 100, total_net_worth) ELSE Zero

\* Variant: the fund value is left out of the total.
net_worth_total_without_funds(bank, stock_value, mf_value) == bank + stock_value

\* bank_balance + stock_value + mf_value
net_worth_total(bank, stock_value, mf_value) == bank + stock_value + mf_value

get_net_worth(stock_metrics, mf_metrics) ==
    IF stock_metrics.kind = "raise" THEN stock_metrics
    ELSE LET stock_value == get_or_0(stock_metrics, "total_current")
             mf_value == get_or_0(mf_metrics, "total_current")
             total_net_worth == net_worth_total(bank_balance, stock_value, mf_value)
         IN  [kind |-> "net_worth",
              bank_balance |-> bank_balance,
              stock_portfolio_value |-> stock_value,
              mf_portfolio_value |-> mf_value,
              total_net_worth |-> total_net_worth,
              asset_allocation |->
                  [bank_percent |-> asset_percent(bank_balance, total_net_worth),
                   stocks_percent |-> asset_percent(stock_value, total_net_worth),
                   mf_percent |-> asset_percent(mf_value, total_net_worth)]]

get_portfolio_performance(stock_metrics, mf_metrics) ==
    IF stock_metrics.kind = "raise" THEN stock_metrics
    ELSE LET total_invested == get_or_0(stock_metrics, "total_invested")
                                 + get_or_0(mf_metrics, "total_invested")
             total_current == get_or_0(stock_metrics, "total_current")
                                + get_or_0(mf_metrics, "total_current")
             total_gain == total_current - total_invested
         IN  [kind |-> "performance",
              total_invested |-> total_invested,
              total_current |-> total_current,
              total_gain |-> total_gain,
              total_gain_percent |->
                  IF total_invested > 0
                  THEN Frac(total_gain * 100, total_invested) ELSE Zero,
              stock_details |-> stock_metrics,
              mf_details |-> mf_metrics]

NetWorth ==
    /\ ret' = get_net_worth(stock_calculate_portfolio_metrics(stock_holdings, yf_info),
                            mf_calculate_portfolio_metrics(mf_holdings))
    /\ UNCHANGED <<stock_holdings, mf_holdings, yf_info, nav_data, add_calls>>

PortfolioPerformance ==
    /\ ret' = get_portfolio_performance(
                  stock_calculate_portfolio_metrics(stock_holdings, yf_info),
                  mf_calculate_portfolio_metrics(mf_holdings))
    /\ UNCHANGED <<stock_holdings, mf_holdings, yf_info, nav_data, add_calls>>

(* --------------------------- specifications ---------------------------- *)

\* The equities ledger and its price provider.
NextEquity ==
    \/ \E t \in Tickers, q \in Quantities, p \in PurchasePrices, d \in Dates :
          add_stock(t, q, p, d)
    \/ \E t \in Tickers, q \in Quotes : QuoteChange(t, q)
    \/ StockMetrics

SpecEquity == Init /\ [][NextEquity]_vars

\* The fund ledger; only the newest NAV of a series is read by add_holding.
LatestNavSeries == SeqsUpTo(NavValues \ {0}, 1)

NextFund ==
    \/ \E s \in Schemes, u \in Units, a \in Amounts : add_holding(s, u, a)
    \/ \E s \in Schemes, series \in LatestNavSeries : NavChange(s, series)
    \/ MfMetrics

SpecFund == Init /\ [][NextFund]_vars

\* Both ledgers, each exercised while the other service is still as
\* constructed: the two services share no state.
EquityIdle == stock_holdings = <<>> /\ yf_info = [t \in Tickers |-> QuoteError]
FundIdle == mf_holdings = <<>> /\ nav_data = [s \in Schemes |-> <<>>]

NextLedgers ==
    \/ \E t \in Tickers, q \in Quantities, p \in PurchasePrices, d \in Dates :
          FundIdle /\ add_stock(t, q, p, d)
    \/ \E t \in Tickers, q \in Quotes : FundIdle /\ QuoteChange(t, q)
    \/ FundIdle /\ StockMetrics
    \/ \E s \in Schemes, u \in Units, a \in Amounts : EquityIdle /\ add_holding(s, u, a)
    \/ \E s \in Schemes, series \in LatestNavSeries : EquityIdle /\ NavChange(s, series)
    \/ EquityIdle /\ MfMetrics

SpecLedgers == Init /\ [][NextLedgers]_vars

\* The add operations of both ledgers together.  To bound the product of the
\* two ledgers, one of them holds every instrument while the other holds at
\* most its first one.
FirstTickers == {1}
FirstSchemes == {1}

NextAdds ==
    \/ \E t \in Tickers, q \in Quantities, p \in PurchasePrices, d \in Dates :
          /\ t \in FirstTickers \/ Keys(mf_holdings) \subseteq FirstSchemes
          /\ add_stock(t, q, p, d)
    \/ \E s \in Schemes, u \in Units, a \in Amounts :
          /\ s \in FirstSchemes \/ Keys(stock_holdings) \subseteq FirstTickers
          /\ add_holding(s, u, a)

SpecAdds == Init /\ [][NextAdds]_vars

\* The SIP simulation over the NAV series of one scheme.
SipSchemes == {1}

NextSip ==
    \/ \E s \in SipSchemes, series \in NavSeries : NavChange(s, series)
    \/ \E s \in SipSchemes, m \in MonthlyAmounts, n \in Months : SipReturns(s, m, n)

SpecSip == Init /\ [][NextSip]_vars

\* The dashboard over both services, one instrument in each ledger.
DashTickers == {1}
DashSchemes == {1}
DashMonthlyAmounts == {1}

Next ==
    \/ \E t \in DashTickers, q \in Quantities, p \in PurchasePrices, d \in Dates :
          add_stock(t, q, p, d)
    \/ \E t \in DashTickers, q \in Quotes : QuoteChange(t, q)
    \/ StockMetrics
    \/ \E s \in DashSchemes, u \in Units, a \in Amounts : add_holding(s, u, a)
    \/ \E s \in DashSchemes, series \in NavSeries : NavChange(s, series)
    \/ MfMetrics
    \/ \E s \in DashSchemes, m \in DashMonthlyAmounts, n \in Months :
          SipReturns(s, m, n)
    \/ NetWorth
    \/ PortfolioPerformance

Spec == Init /\ [][Next]_vars

(* ------------------------------ properties ----------------------------- *)

RECURSIVE SumSeq(_)
SumSeq(s) == IF s = <<>> THEN 0 ELSE Head(s) + SumSeq(Tail(s))

RECURSIVE FSumSeq(_)
FSumSeq(s) == IF s = <<>> THEN Zero ELSE FAdd(Head(s), FSumSeq(Tail(s)))

Column(d, field) == [i \in 1..Len(d) |-> d[i].val[field]]

\* Which valuation a returned summary came from, read off its positions.
IsStockSummary(r) ==
    /\ r.kind = "summary"
    /\ r.holdings # <<>>
    /\ \A i \in 1..Len(r.holdings) : "allocation_percent" \in DOMAIN r.holdings[i].val
IsFundSummary(r) ==
    /\ r.kind = "summary"
    /\ \A i \in 1..Len(r.holdings) : "units" \in DOMAIN r.holdings[i].val

\* C1: whenever equities valuation returns total_current > 0, the
\* allocation_percent values of all positions in the summary sum to 100.
C1_AllocationSumsTo100 ==
    (IsStockSummary(ret) /\ ret.total_current > 0)
        => FSumSeq(Column(ret.holdings, "allocation_percent")) = FromInt(100)

\* The price the valuation is to resolve for a position: the quote's price
\* when a quote is present with a non-null price, else the unit cost.
ResolvedPrice(ticker, holding) ==
    IF yf_info[ticker].kind = "price"
    THEN yf_info[ticker].price
    ELSE holding.purchase_price

C2_Reported(r) ==
    /\ r.kind = "summary"
    /\ \A t \in Keys(stock_holdings) :
        /\ Has(r.holdings, t)
        /\ LET h == Get(stock_holdings, t)
               d == Get(r.holdings, t)
           IN  /\ d.current_price = ResolvedPrice(t, h)
               /\ yf_info[t].kind # "price" =>
                     /\ d.current_value = h.quantity * h.purchase_price
                     /\ d.gain_loss = 0

\* C2: an equities valuation of a non-empty ledger raises no error and
\* reports every position at the quote price when the quote has a non-null
\* price, and at its unit cost (current_value = quantity * unit_cost,
\* gain_loss = 0) when the quote is missing or its price is null.
C2_FallbackToUnitCost ==
    [][(StockMetrics /\ stock_holdings # <<>>) => C2_Reported(ret')]_vars

OnePerKey(d) == \A i, j \in 1..Len(d) : d[i].key = d[j].key => i = j

\* What an add of key k must leave in ledger "after", given ledger "before".
Replaced(before, after, k) ==
    /\ OnePerKey(after)
    /\ Keys(after) = Keys(before) \cup {k}
    /\ \A o \in Keys(before) \ {k} : Get(after, o) = Get(before, o)

\* C3: every add-position call leaves exactly one position per identifier,
\* the added identifier holding the quantity and cost just given (replaced,
\* not merged with a prior holding), raises no error, and leaves the
\* positions of the other identifiers and the other ledger as they were.
C3_AddReplaces ==
    [][/\ \A t \in Tickers, q \in Quantities, p \in PurchasePrices, d \in Dates :
            add_stock(t, q, p, d) =>
                /\ Replaced(stock_holdings, stock_holdings', t)
                /\ Get(stock_holdings', t).quantity = q
                /\ Get(stock_holdings', t).purchase_price = p
                /\ mf_holdings' = mf_holdings
                /\ ret'.kind # "raise"
       /\ \A s \in Schemes, u \in Units, a \in Amounts :
            add_holding(s, u, a) =>
                /\ Replaced(mf_holdings, mf_holdings', s)
                /\ Get(mf_holdings', s).units = u
                /\ Get(mf_holdings', s).amount_invested = a
                /\ stock_holdings' = stock_holdings
                /\ ret'.kind # "raise"]_vars

\* C3 witness: two adds were made and the equities ledger holds one position,
\* so the second add named the identifier of the first.
C3_ReAdded ==
    /\ add_calls >= 2
    /\ Len(stock_holdings) = 1
    /\ mf_holdings = <<>>

\* C4: a SIP simulation asked for more periods than the NAV series has
\* entries returns only the insufficient-data error, which carries the number
\* of entries available, and none of the simulation's metrics.
C4_InsufficientHistory ==
    [][\A s \in Schemes, m \in MonthlyAmounts, n \in Months :
          (SipReturns(s, m, n) /\ Len(nav_data[s]) < n) =>
              /\ ret'.kind = "error"
              /\ DOMAIN ret' = {"kind", "error"}
              /\ ret'.error.arg = Len(nav_data[s])]_vars

\* C4 witness: the error was returned for a series that has entries, so a
\* prefix could have been simulated.
C4_ShortSeriesRefused ==
    /\ ret.kind = "error"
    /\ \E s \in Schemes : nav_data[s] # <<>> /\ ret.error.arg = Len(nav_data[s])

\* C5: no valuation, simulation or aggregation call aborts with a fault.
C5_NoAbort == ret.kind # "raise"

\* C6: a fund position added while the provider had no NAV for its scheme,
\* and valued while it still has none, is reported at its cost basis:
\* current_value = amount invested and gain_loss = 0.
C6_MissingNavFallsBack ==
    IsFundSummary(ret) =>
        \A s \in Keys(ret.holdings) :
            (nav_data[s] = <<>> /\ Get(mf_holdings, s).current_nav = 0) =>
                /\ Get(ret.holdings, s).current_value = Get(ret.holdings, s).amount_invested
                /\ Get(ret.holdings, s).gain_loss = 0

\* C7: a valuation result carries, for every position, the provider's price
\* or NAV as of the valuation call.
C7_PriceAsOfValuation ==
    /\ IsStockSummary(ret) =>
          \A t \in Keys(ret.holdings) :
              yf_info[t].kind = "price" =>
                  Get(ret.holdings, t).current_price = yf_info[t].price
    /\ IsFundSummary(ret) =>
          \A s \in Keys(ret.holdings) :
              nav_data[s] # <<>> =>
                  Get(ret.holdings, s).nav = nav_of(nav_data[s][1])

\* The totals of the two ledgers, summed position by position.
EquityTotalCurrent ==
    SumSeq([i \in 1..Len(stock_holdings) |->
        stock_holdings[i].val.quantity
            * ResolvedPrice(stock_holdings[i].key, stock_holdings[i].val)])
FundTotalCurrent ==
    SumSeq([i \in 1..Len(mf_holdings) |->
        mf_holdings[i].val.units * mf_holdings[i].val.current_nav])

IsPercentOf(pct, value, total) ==
    IF total = 0 THEN pct = Zero ELSE pct.num * total = value * 100 * pct.den

NetWorthExample ==
    LET r == get_net_worth(
                 [kind |-> "summary", total_current |-> 50000],
                 [kind |-> "summary", total_current |-> 30000])
    IN  /\ r.total_net_worth = 80000
        /\ r.asset_allocation.stocks_percent = Frac(125, 2)
        /\ r.asset_allocation.mf_percent = Frac(75, 2)
        /\ r.asset_allocation.bank_percent = Zero

\* C8: get_net_worth returns total_net_worth = bank balance + equities
\* total_current + funds total_current, and each class's percent = class
\* value / total_net_worth * 100, all three 0 when the total is 0; bank 0,
\* equities 50000, funds 30000 gives 80000 with 62.5 / 37.5 / 0.
C8_NetWorth ==
    /\ NetWorthExample
    /\ ret.kind = "net_worth" =>
        /\ ret.bank_balance = 0
        /\ ret.stock_portfolio_value = EquityTotalCurrent
        /\ ret.mf_portfolio_value = FundTotalCurrent
        /\ ret.total_net_worth =
              ret.bank_balance + ret.stock_portfolio_value + ret.mf_portfolio_value
        /\ IsPercentOf(ret.asset_allocation.bank_percent,
                       ret.bank_balance, ret.total_net_worth)
        /\ IsPercentOf(ret.asset_allocation.stocks_percent,
                       ret.stock_portfolio_value, ret.total_net_worth)
        /\ IsPercentOf(ret.asset_allocation.mf_percent,
                       ret.mf_portfolio_value, ret.total_net_worth)

\* C8 witness: a net worth made of an equities value and a different,
\* non-zero fund value.
C8_BothClassesHeld ==
    /\ ret.kind = "net_worth"
    /\ ret.stock_portfolio_value > 0
    /\ ret.mf_portfolio_value > ret.stock_portfolio_value

\* C9: in every summary returned by equities or fund valuation, the
\* positions' current values sum to total_current and their invested values
\* sum to total_invested.
C9_TotalsAreSums ==
    ret.kind = "summary" =>
        /\ SumSeq(Column(ret.holdings, "current_value")) = ret.total_current
        /\ IsStockSummary(ret) =>
              SumSeq(Column(ret.holdings, "invested_value")) = ret.total_invested
        /\ IsFundSummary(ret) =>
              SumSeq(Column(ret.holdings, "amount_invested")) = ret.total_invested

\* C9 witness: a fund summary of two positions of different current value
\* whose total differs from the amount invested.
C9_TwoFundPositions ==
    /\ IsFundSummary(ret)
    /\ Len(ret.holdings) = 2
    /\ ret.holdings[1].val.current_value > ret.holdings[2].val.current_value
    /\ ret.holdings[2].val.current_value > 0
    /\ ret.total_current # ret.total_invested

\* C10: in an equities summary every position's allocation_percent is its
\* current_value / the summary's total_current * 100, and 0 when that total
\* is 0.
C10_AllocationOfFinalTotal ==
    IsStockSummary(ret) =>
        \A i \in 1..Len(ret.holdings) :
            ret.holdings[i].val.allocation_percent =
                IF ret.total_current = 0
                THEN Zero
                ELSE Frac(ret.holdings[i].val.current_value * 100, ret.total_current)

\* What a simulation of n periods of contribution m over series nav is to
\* return, from the first n entries alone.
SipUnits(nav, m, n) == FSumSeq([i \in 1..n |-> Frac(m, nav[i])])
SipAsSpecified(r, nav, m, n) ==
    LET units == SipUnits(nav, m, n)
        value == FMul(units, FromInt(nav[1]))
        gain == FSub(value, FromInt(m * n))
    IN  /\ r.kind = "sip"
        /\ r.units_purchased = units
        /\ r.current_value = value
        /\ r.total_invested = m * n
        /\ r.gain = gain
        /\ r.gain_percent =
              IF m * n = 0 THEN Zero ELSE Frac(gain.num * 100, gain.den * m * n)

SipExample ==
    LET r == calculate_sip_returns(<<110, 105, 100>>, 1000, 3)
    IN  /\ r.units_purchased = Frac(6610, 231)
        /\ r.current_value = Frac(66100, 21)
        /\ r.total_invested = 3000
        /\ r.gain = Frac(3100, 21)
        /\ r.gain_percent = Frac(310, 63)

\* C11: a SIP simulation of N >= 1 periods over a series of at least N
\* entries, all NAVs > 0, returns units_purchased = sum of contribution /
\* nav[i] over the first N entries, current_value = units_purchased * nav[0],
\* total_invested = contribution * N, gain = current_value - total_invested
\* and gain_percent = gain / total_invested * 100 (0 if total_invested = 0);
\* the entries from index N on do not change the result.
C11_SipOverFirstN ==
    [][/\ SipExample
       /\ \A s \in Schemes, m \in MonthlyAmounts, n \in Months :
            (/\ SipReturns(s, m, n)
             /\ n >= 1
             /\ Len(nav_data[s]) >= n
             /\ \A i \in 1..Len(nav_data[s]) : nav_data[s][i] > 0) =>
                /\ SipAsSpecified(ret', nav_data[s], m, n)
                /\ ret' = calculate_sip_returns(SubSeq(nav_data[s], 1, n), m, n)]_vars

\* C11 witness: two contributions were simulated over a series of two
\* different NAVs, with a gain.
C11_TwoPeriodsSimulated ==
    /\ ret.kind = "sip"
    /\ ret.monthly_investment > 0
    /\ ret.total_invested = 2 * ret.monthly_investment
    /\ ret.gain.num > 0
    /\ \E s \in Schemes :
          /\ Len(nav_data[s]) = 2
          /\ nav_data[s][1] > nav_data[s][2]
          /\ nav_data[s][2] > 0
          /\ ret.current_nav = nav_data[s][1]

\* The step is one of the add-position operations.
IsAddStock ==
    \E t \in Tickers, q \in Quantities, p \in PurchasePrices, d \in Dates :
        add_stock(t, q, p, d)
IsAddHolding ==
    \E s \in Schemes, u \in Units, a \in Amounts : add_holding(s, u, a)

\* The step is a valuation, simulation or aggregation call: it returns a
\* value or raises.
IsComputation == ret'.kind # "None"

\* The step repeats the call whose result ret holds.
RepeatsCall ==
    /\ IsComputation
    /\ \/ (IsStockSummary(ret) \/ ret.kind = "empty") /\ StockMetrics
       \/ (IsFundSummary(ret) /\ ~IsStockSummary(ret)) /\ MfMetrics
       \/ ret.kind = "net_worth" /\ NetWorth
       \/ ret.kind = "performance" /\ PortfolioPerformance

\* C12: a ledger changes only in an add-position step; every valuation,
\* simulation, net-worth and performance call leaves both ledgers as they
\* were, a call repeated on unchanged provider data returns the same result,
\* and no step removes an identifier from a ledger.
C12_OnlyAddsChangeLedgers ==
    [][/\ stock_holdings' # stock_holdings => IsAddStock
       /\ mf_holdings' # mf_holdings => IsAddHolding
       /\ IsComputation =>
             (stock_holdings' = stock_holdings /\ mf_holdings' = mf_holdings)
       /\ RepeatsCall => ret' = ret
       /\ Keys(stock_holdings) \subseteq Keys(stock_holdings')
       /\ Keys(mf_holdings) \subseteq Keys(mf_holdings')]_vars

\* C12 witness: the combined performance was computed over two ledgers that
\* each hold a position.
C12_ValuedBothLedgers ==
    /\ ret.kind = "performance"
    /\ stock_holdings # <<>>
    /\ mf_holdings # <<>>

====
